---- MODULE Spec2Model ----
(***************************************************************************)
(* Class-level configuration serialization of zeus/common/                 *)
(* config_serializable.py: to_json, from_json (plain, link and             *)
(* PipeStepConfig branches), check_config, backup_original_value, renew    *)
(* and backup_configs, over a small family of declared config classes.     *)
(*                                                                         *)
(* Python values are tagged records [k |-> kind, v |-> payload]; a mapping *)
(* is a function over Attr whose missing keys hold Absent.  A class is its *)
(* own attribute dictionary own[c] plus its parent; attribute lookup walks *)
(* the parents as Python's getattr does.                                   *)
(***************************************************************************)
EXTENDS Integers, Sequences, FiniteSets

\* ------------------------------------------------------------------ bounds
MaxSteps == 3
MaxInt == 1

\* ------------------------------------------------------------------ values
Absent == [k |-> "absent", v |-> "absent"]
None == [k |-> "none", v |-> "none"]
IntV(n) == [k |-> "int", v |-> n]
StrV(s) == [k |-> "str", v |-> s]
Cls(c) == [k |-> "cls", v |-> c]
Inst(c) == [k |-> "inst", v |-> c]
MapV(f) == [k |-> "map", v |-> f]

\* Attribute / key names, in the order Python iterates them: dir() is
\* sorted, and the input mappings are taken to be inserted in this order.
KeyOrder ==
  << "_class_data", "_class_type", "a", "inst", "lr", "models_folder",
     "new_field", "pipe_step", "sub", "type", "x" >>

Attr == {KeyOrder[i] : i \in 1..Len(KeyOrder)}

EmptyMap == [a \in Attr |-> Absent]
Map1(k1, v1) == MapV([EmptyMap EXCEPT ![k1] = v1])
Map2(k1, v1, k2, v2) == MapV([EmptyMap EXCEPT ![k1] = v1, ![k2] = v2])

Keys(m) == {a \in Attr : m.v[a] # Absent}
HasKey(m, a) == m.k = "map" /\ m.v[a] # Absent

\* Python truthiness of a value (`not data`, `if class_data`, ...).
Truthy(val) ==
  CASE val.k = "none" -> FALSE
    [] val.k = "absent" -> FALSE
    [] val.k = "int" -> val.v # 0
    [] val.k = "str" -> val.v # ""
    [] val.k = "map" -> Keys(val) # {}
    [] OTHER -> TRUE

\* ----------------------------------------------------------------- classes
Base == "ConfigSerializable"

Classes ==
  { "PlainConfig", "ChildConfig", "SubConfig", "EmptyConfig", "OptimLink",
    "DataLink", "AdamConfig", "SGDConfig", "PipeStepConfig" }

\* cls.__mro__: the direct parent of each declared class.
Parent(c) == IF c = "ChildConfig" THEN "PlainConfig" ELSE Base

\* base_class.__subclasses__(), in declaration order.
Subclasses(c) ==
  CASE c = Base -> << "PlainConfig", "SubConfig", "EmptyConfig", "OptimLink",
                      "DataLink", "AdamConfig", "SGDConfig", "PipeStepConfig" >>
    [] c = "PlainConfig" -> << "ChildConfig" >>
    [] OTHER -> << >>

\* The class bodies as declared.
Declared(c) ==
  CASE c = "PlainConfig" ->
         [EmptyMap EXCEPT !["a"] = IntV(0), !["sub"] = Cls("SubConfig")]
    [] c = "ChildConfig" ->
         [EmptyMap EXCEPT !["a"] = IntV(1), !["inst"] = Inst("SubConfig")]
    [] c = "SubConfig" -> [EmptyMap EXCEPT !["x"] = IntV(0)]
    [] c = "EmptyConfig" -> EmptyMap
    [] c = "OptimLink" ->
         [EmptyMap EXCEPT !["type"] = None, !["_class_type"] = StrV("optimizer"),
                          !["_class_data"] = None]
    [] c = "DataLink" ->
         [EmptyMap EXCEPT !["type"] = StrV("Adam"),
                          !["_class_type"] = StrV("optimizer"),
                          !["_class_data"] = None]
    [] c = "AdamConfig" -> [EmptyMap EXCEPT !["lr"] = IntV(0)]
    [] c = "SGDConfig" -> [EmptyMap EXCEPT !["lr"] = IntV(0)]
    [] c = "PipeStepConfig" ->
         [EmptyMap EXCEPT !["type"] = StrV("t0"), !["models_folder"] = None,
                          !["pipe_step"] = MapV(EmptyMap)]
    [] OTHER -> EmptyMap

VARIABLES own, original, last, family, steps

vars == << own, original, last, family, steps >>

\* -------------------------------------------------------- attribute access
RECURSIVE getattr(_, _, _)
getattr(o, c, a) ==
  IF c = Base THEN Absent
  ELSE IF o[c][a] # Absent THEN o[c][a]
  ELSE getattr(o, Parent(c), a)

hasattr(o, c, a) == getattr(o, c, a) # Absent

setattr(o, c, a, val) == [o EXCEPT ![c][a] = val]

\* cls.__original__value__, looked up through the parents; the base class
\* declares it None.
RECURSIVE original_value(_, _)
original_value(orig, c) ==
  IF c = Base THEN None
  ELSE IF orig[c] # Absent THEN orig[c]
  ELSE original_value(orig, Parent(c))

\* ----------------------------------------------------------------- to_json
RECURSIVE to_json(_, _)
to_json(o, c) ==
  MapV([a \in Attr |->
          LET value == getattr(o, c, a) IN
          IF value.k = "cls" \/ value.k = "inst"
          THEN to_json(o, value.v)
          ELSE value])

\* ------------------------------------------------------------ check_config
\* cls.rules(): the kind each listed key must have.  PlainConfig and
\* SubConfig declare rules; ChildConfig inherits PlainConfig's classmethod;
\* every other class keeps the default {}.
rules(c) ==
  CASE c = "PlainConfig" -> [EmptyMap EXCEPT !["a"] = StrV("int")]
    [] c = "ChildConfig" -> [EmptyMap EXCEPT !["a"] = StrV("int")]
    [] c = "SubConfig" -> [EmptyMap EXCEPT !["x"] = StrV("int")]
    [] OTHER -> EmptyMap

\* valid_rule(cls, config, rules): TRUE iff no ValidationError is raised.
valid_rule(c, config, rls) ==
  \A a \in Attr :
    (rls[a] # Absent /\ HasKey(config, a)) => config.v[a].k = rls[a].v

check_config(c, config) == valid_rule(c, config, rules(c))

\* ---------------------------------------------------------------- registry
NoClass == "NoClass"

\* ClassFactory.get_cls(class_type, class_name): the registered
\* implementation, or NoClass.
get_cls(class_type, class_name) ==
  IF class_type = StrV("optimizer") /\ class_name = StrV("Adam") THEN "AdamImpl"
  ELSE IF class_type = StrV("optimizer") /\ class_name = StrV("SGD") THEN "SGDImpl"
  ELSE IF class_type = StrV("optimizer") /\ class_name = StrV("Momentum")
  THEN "MomentumImpl"
  ELSE NoClass

\* type(specific_class.config) of an implementation; MomentumImpl has no
\* config attached.
impl_config(impl) ==
  CASE impl = "AdamImpl" -> "AdamConfig"
    [] impl = "SGDImpl" -> "SGDConfig"
    [] OTHER -> NoClass

_get_specific_class_config(class_type, class_name) ==
  LET specific_class == get_cls(class_type, class_name) IN
  IF specific_class # NoClass /\ impl_config(specific_class) # NoClass
  THEN impl_config(specific_class)
  ELSE NoClass

\* --------------------------------------------------------------- from_json
\* Config(deepcopy(data)): a private copy of the same structure.
Config(data) == data

\* The outcome of a call: the class dictionaries it leaves behind and the
\* exception it ended with ("none" when it returned).
Ok(o) == [own |-> o, exc |-> "none"]
Raise(o, e) == [own |-> o, exc |-> e]

_is_link_config(o, c) ==
  hasattr(o, c, "type") /\ hasattr(o, c, "_class_type")
    /\ hasattr(o, c, "_class_data")

RECURSIVE from_json(_, _, _, _)
RECURSIVE set_attrs(_, _, _, _, _)
RECURSIVE _load_link_config(_, _, _)

\* _load_link_config with the discriminator assigned before the lookup.
_load_link_config_type_first(o, c, config) ==
  IF config.k # "map" \/ ~HasKey(config, "type") THEN Ok(o)
  ELSE
    LET class_type == getattr(o, c, "_class_type")
        class_name == config.v["type"]
        o1 == setattr(o, c, "type", class_name)
    IN
    IF ~Truthy(class_name) THEN Ok(o)
    ELSE
      LET class_data == IF HasKey(config, "_class_data")
                        THEN config.v["_class_data"] ELSE config
          config_cls == _get_specific_class_config(class_type, class_name)
      IN
      IF config_cls # NoClass THEN
        IF Truthy(class_data) THEN
          LET r == from_json(o1, config_cls, class_data, TRUE) IN
          IF r.exc # "none" THEN r
          ELSE Ok(setattr(r.own, c, "_class_data", Cls(config_cls)))
        ELSE Ok(setattr(o1, c, "_class_data", Cls(config_cls)))
      ELSE Ok(o1)

\* _load_link_config that always takes the whole config as the payload.
_load_link_config_whole_payload(o, c, config) ==
  IF config.k # "map" \/ ~HasKey(config, "type") THEN Ok(o)
  ELSE
    LET class_type == getattr(o, c, "_class_type")
        class_name == config.v["type"]
    IN
    IF ~Truthy(class_name) THEN Ok(o)
    ELSE
      LET class_data == config
          config_cls == _get_specific_class_config(class_type, class_name)
      IN
      IF config_cls # NoClass THEN
        LET o1 == setattr(o, c, "type", class_name) IN
        IF Truthy(class_data) THEN
          LET r == from_json(o1, config_cls, class_data, TRUE) IN
          IF r.exc # "none" THEN r
          ELSE Ok(setattr(r.own, c, "_class_data", Cls(config_cls)))
        ELSE Ok(setattr(o1, c, "_class_data", Cls(config_cls)))
      ELSE Ok(o)

\* _load_link_config that applies the payload to the link node itself.
_load_link_config_on_self(o, c, config) ==
  IF config.k # "map" \/ ~HasKey(config, "type") THEN Ok(o)
  ELSE
    LET class_type == getattr(o, c, "_class_type")
        class_name == config.v["type"]
    IN
    IF ~Truthy(class_name) THEN Ok(o)
    ELSE
      LET class_data == IF HasKey(config, "_class_data")
                        THEN config.v["_class_data"] ELSE config
          config_cls == _get_specific_class_config(class_type, class_name)
      IN
      IF config_cls # NoClass THEN
        LET o1 == setattr(o, c, "type", class_name) IN
        IF Truthy(class_data) THEN
          LET r == set_attrs(o1, c, class_data, TRUE, 1) IN
          IF r.exc # "none" THEN r
          ELSE Ok(setattr(r.own, c, "_class_data", Cls(config_cls)))
        ELSE Ok(setattr(o1, c, "_class_data", Cls(config_cls)))
      ELSE Ok(o)

\* _load_link_config that assigns the discriminator only together with a
\* non-empty payload.
_load_link_config_type_with_payload(o, c, config) ==
  IF config.k # "map" \/ ~HasKey(config, "type") THEN Ok(o)
  ELSE
    LET class_type == getattr(o, c, "_class_type")
        class_name == config.v["type"]
    IN
    IF ~Truthy(class_name) THEN Ok(o)
    ELSE
      LET class_data == IF HasKey(config, "_class_data")
                        THEN config.v["_class_data"] ELSE config
          config_cls == _get_specific_class_config(class_type, class_name)
      IN
      IF config_cls # NoClass THEN
        IF Truthy(class_data) THEN
          LET r == from_json(setattr(o, c, "type", class_name), config_cls,
                             class_data, TRUE)
          IN
          IF r.exc # "none" THEN r
          ELSE Ok(setattr(r.own, c, "_class_data", Cls(config_cls)))
        ELSE Ok(setattr(o, c, "_class_data", Cls(config_cls)))
      ELSE Ok(o)

_load_link_config(o, c, config) ==
  IF config.k # "map" \/ ~HasKey(config, "type") THEN Ok(o)
  ELSE
    LET class_type == getattr(o, c, "_class_type")
        class_name == config.v["type"]
    IN
    IF ~Truthy(class_name) THEN Ok(o)
    ELSE
      LET class_data == IF HasKey(config, "_class_data")
                        THEN config.v["_class_data"] ELSE config
          config_cls == _get_specific_class_config(class_type, class_name)
      IN
      IF config_cls # NoClass THEN
        LET o1 == setattr(o, c, "type", class_name) IN
        IF Truthy(class_data) THEN
          LET r == from_json(o1, config_cls, class_data, TRUE) IN
          IF r.exc # "none" THEN r
          ELSE Ok(setattr(r.own, c, "_class_data", Cls(config_cls)))
        ELSE Ok(setattr(o1, c, "_class_data", Cls(config_cls)))
      ELSE Ok(o)

\* set_attrs with the whole config handed to the nested type instead of
\* config[attr].
set_attrs_whole_config(o, c, config, skip_check, i) ==
  IF i > Len(KeyOrder) THEN Ok(o)
  ELSE
    LET attr == KeyOrder[i] IN
    IF ~HasKey(config, attr) THEN set_attrs(o, c, config, skip_check, i + 1)
    ELSE IF ~hasattr(o, c, attr)
    THEN set_attrs(setattr(o, c, attr, config.v[attr]), c, config, skip_check, i + 1)
    ELSE
      LET class_value == getattr(o, c, attr)
          config_value == config.v[attr]
      IN
      IF class_value.k = "cls" /\ config_value.k = "map" THEN
        LET r == from_json(o, class_value.v, config, skip_check) IN
        IF r.exc # "none" THEN r
        ELSE set_attrs(setattr(r.own, c, attr, Cls(class_value.v)), c, config,
                       skip_check, i + 1)
      ELSE set_attrs(setattr(o, c, attr, config_value), c, config, skip_check, i + 1)

\* set_attrs that overwrites a nested config type with the incoming mapping.
set_attrs_replace_nested(o, c, config, skip_check, i) ==
  IF i > Len(KeyOrder) THEN Ok(o)
  ELSE
    LET attr == KeyOrder[i] IN
    IF ~HasKey(config, attr) THEN set_attrs(o, c, config, skip_check, i + 1)
    ELSE set_attrs(setattr(o, c, attr, config.v[attr]), c, config, skip_check, i + 1)

\* The loop `for attr in config` of from_json, from the i-th key on.
set_attrs(o, c, config, skip_check, i) ==
  IF i > Len(KeyOrder) THEN Ok(o)
  ELSE
    LET attr == KeyOrder[i] IN
    IF ~HasKey(config, attr) THEN set_attrs(o, c, config, skip_check, i + 1)
    ELSE IF ~hasattr(o, c, attr)
    THEN set_attrs(setattr(o, c, attr, config.v[attr]), c, config, skip_check, i + 1)
    ELSE
      LET class_value == getattr(o, c, attr)
          config_value == config.v[attr]
      IN
      IF class_value.k = "cls" /\ config_value.k = "map" THEN
        LET r == from_json(o, class_value.v, config_value, skip_check) IN
        IF r.exc # "none" THEN r
        ELSE set_attrs(setattr(r.own, c, attr, Cls(class_value.v)), c, config,
                       skip_check, i + 1)
      ELSE set_attrs(setattr(o, c, attr, config_value), c, config, skip_check, i + 1)

\* The PipeStepConfig block that closes from_json.
pipe_step_attrs(o, c, data) ==
  IF c = "PipeStepConfig" /\ HasKey(data, "pipe_step") THEN
    LET ps == data.v["pipe_step"] IN
    IF ps.k = "map" THEN
      LET o1 == IF HasKey(ps, "type")
                THEN setattr(o, c, "type", ps.v["type"]) ELSE o
          o2 == IF HasKey(ps, "models_folder")
                THEN setattr(o1, c, "models_folder", ps.v["models_folder"]) ELSE o1
      IN Ok(o2)
    ELSE IF ps.k = "str" THEN Ok(o)
    ELSE Raise(o, "TypeError")
  ELSE Ok(o)

\* from_json that runs check_config after the fields are assigned.
from_json_check_last(o, c, data, skip_check) ==
  IF ~Truthy(data) THEN Ok(o)
  ELSE
    LET config == Config(data)
        r == IF _is_link_config(o, c) THEN _load_link_config(o, c, config)
             ELSE set_attrs(o, c, config, skip_check, 1)
    IN
    IF r.exc # "none" THEN r
    ELSE IF ~skip_check /\ ~check_config(c, config)
    THEN Raise(r.own, "ValidationError")
    ELSE IF _is_link_config(o, c) THEN r
    ELSE pipe_step_attrs(r.own, c, data)

from_json(o, c, data, skip_check) ==
  IF ~Truthy(data) THEN Ok(o)
  ELSE
    LET config == Config(data) IN
    IF ~skip_check /\ ~check_config(c, config) THEN Raise(o, "ValidationError")
    ELSE IF _is_link_config(o, c) THEN _load_link_config(o, c, config)
    ELSE
      LET r == set_attrs(o, c, config, skip_check, 1) IN
      IF r.exc # "none" THEN r ELSE pipe_step_attrs(r.own, c, data)

\* ---------------------------------------------------- backup_configs helper
\* _get_all_config_cls: every subclass below base_class, each class before
\* its own subclasses.  AllBelow walks the list of direct subclasses.
RECURSIVE _get_all_config_cls(_)
RECURSIVE AllBelow(_, _)
AllBelow(subs, i) ==
  IF i > Len(subs) THEN << >>
  ELSE << subs[i] >> \o _get_all_config_cls(subs[i]) \o AllBelow(subs, i + 1)

_get_all_config_cls(base_class) == AllBelow(Subclasses(base_class), 1)

\* cls.__original__value__ after backup_original_value() on class c.
backup_original_value(o, orig, c) ==
  IF ~Truthy(original_value(orig, c))
  THEN [orig EXCEPT ![c] = to_json(o, c)]
  ELSE orig

\* The loop of backup_configs over classes[i..].
RECURSIVE backup_each(_, _, _, _)
backup_each(o, orig, classes, i) ==
  IF i > Len(classes) THEN orig
  ELSE backup_each(o, backup_original_value(o, orig, classes[i]), classes, i + 1)

\* renew() on class c.
renew(o, orig, c) ==
  IF Truthy(original_value(orig, c))
  THEN from_json(o, c, original_value(orig, c), TRUE)
  ELSE Ok(o)

\* ------------------------------------------------------------------ inputs
Ints == {IntV(n) : n \in 1..MaxInt}

\* <<data, skip_check>> pairs each class is called with.
PlainCalls ==
  ({Map1("a", i) : i \in Ints} \X BOOLEAN)
    \cup ({Map1("new_field", i) : i \in Ints} \X {TRUE})
    \cup ({Map1("sub", Map1("x", i)) : i \in Ints} \X {TRUE})
    \cup { << Map1("a", StrV("bad")), FALSE >>,
           << Map2("a", IntV(MaxInt), "sub", Map1("x", StrV("bad"))), FALSE >>,
           << Map2("a", IntV(MaxInt), "sub", Map1("x", StrV("bad"))), TRUE >>,
           << Map1("sub", Map1("new_field", IntV(1))), TRUE >>,
           << Map1("sub", IntV(1)), TRUE >>,
           << MapV(EmptyMap), TRUE >> }

ChildCalls ==
  ({Map1("a", i) : i \in Ints} \X {TRUE})
    \cup ({Map1("sub", Map1("x", i)) : i \in Ints} \X {TRUE})
    \cup { << Map1("a", StrV("bad")), FALSE >>,
           << Map1("new_field", IntV(1)), TRUE >> }

SubCalls ==
  ({Map1("x", i) : i \in Ints} \X {TRUE}) \cup {<< Map1("x", StrV("bad")), FALSE >>}

EmptyCalls == ({Map1("new_field", i) : i \in Ints} \X {TRUE}) \cup {<< None, TRUE >>}

LinkCalls ==
  ({Map2("type", StrV("Adam"), "lr", i) : i \in Ints} \X {TRUE})
    \cup ({Map2("type", StrV("Adam"), "_class_data", Map1("lr", i)) : i \in Ints}
            \X {TRUE})
    \cup { << Map1("type", StrV("Adam")), FALSE >>,
           << Map1("type", StrV("SGD")), TRUE >>,
           << Map2("type", StrV("SGD"), "_class_data", None), TRUE >>,
           << Map1("type", StrV("Momentum")), TRUE >>,
           << Map2("type", StrV("Nonexistent"), "lr", IntV(1)), TRUE >>,
           << Map1("type", StrV("")), TRUE >>,
           << Map1("lr", IntV(1)), TRUE >>,
           << IntV(1), TRUE >> }

OptCalls == {Map1("lr", i) : i \in Ints} \X {TRUE}

PipeCalls ==
  { << Map1("type", StrV("t1")), TRUE >>,
    << Map1("pipe_step", Map1("type", StrV("t2"))), TRUE >>,
    << Map1("pipe_step", Map1("models_folder", StrV("dir"))), TRUE >>,
    << Map2("pipe_step", Map1("type", StrV("t2")), "type", StrV("t1")), TRUE >>,
    << Map1("pipe_step", None), TRUE >> }

CallsFor(c) ==
  CASE c = "PlainConfig" -> PlainCalls
    [] c = "ChildConfig" -> ChildCalls
    [] c = "SubConfig" -> SubCalls
    [] c = "EmptyConfig" -> EmptyCalls
    [] c \in {"OptimLink", "DataLink"} -> LinkCalls
    [] c \in {"AdamConfig", "SGDConfig"} -> OptCalls
    [] c = "PipeStepConfig" -> PipeCalls
    [] OTHER -> {}

\* The declared classes fall into families that share no class-level state:
\* no class of one family inherits from, nests or resolves to a class of
\* another.  One behaviour calls the classes of one family; backup_configs
\* still walks every class.
Families ==
  { {"PlainConfig", "ChildConfig", "SubConfig"},
    {"OptimLink", "DataLink", "AdamConfig", "SGDConfig"},
    {"EmptyConfig", "PipeStepConfig"} }

\* ----------------------------------------------------------------- actions
Call(op, node, data, skip, exc, fresh) ==
  [op |-> op, node |-> node, data |-> data, skip |-> skip, exc |-> exc,
   fresh |-> fresh]

Init ==
  /\ own = [c \in Classes |-> Declared(c)]
  /\ original = [c \in Classes |-> Absent]
  /\ last = Call("init", Base, None, TRUE, "none", FALSE)
  /\ family \in Families
  /\ steps = 0

FromJson(c, data, skip_check) ==
  /\ steps < MaxSteps
  /\ LET r == from_json(own, c, data, skip_check) IN
       /\ own' = r.own
       /\ last' = Call("from_json", c, data, skip_check, r.exc, FALSE)
  /\ steps' = steps + 1
  /\ UNCHANGED << original, family >>

\* cls.from_json(cls().to_json())
FromJsonOfToJson(c) ==
  /\ steps < MaxSteps
  /\ LET s == to_json(own, c)
         r == from_json(own, c, s, TRUE)
     IN
       /\ own' = r.own
       /\ last' = Call("roundtrip", c, s, TRUE, r.exc, FALSE)
  /\ steps' = steps + 1
  /\ UNCHANGED << original, family >>

BackupOriginalValue(c) ==
  /\ steps < MaxSteps
  /\ original' = backup_original_value(own, original, c)
  /\ last' = Call("backup", c, original_value(original', c), TRUE, "none", FALSE)
  /\ steps' = steps + 1
  /\ UNCHANGED << own, family >>

Renew(c) ==
  /\ steps < MaxSteps
  /\ LET r == renew(own, original, c) IN
       /\ own' = r.own
       /\ last' = Call("renew", c, original_value(original, c), TRUE, r.exc, FALSE)
  /\ steps' = steps + 1
  /\ UNCHANGED << original, family >>

BackupConfigs ==
  /\ steps < MaxSteps
  /\ original' = backup_each(own, original, _get_all_config_cls(Base), 1)
  /\ last' = Call("backup_configs", Base, None, TRUE, "none",
                  \A c \in Classes : original[c] = Absent)
  /\ steps' = steps + 1
  /\ UNCHANGED << own, family >>

Next ==
  \/ \E c \in family : \E call \in CallsFor(c) : FromJson(c, call[1], call[2])
  \/ \E c \in family : FromJsonOfToJson(c)
  \/ \E c \in family : BackupOriginalValue(c)
  \/ \E c \in family : Renew(c)
  \/ BackupConfigs

Spec == Init /\ [][Next]_vars

\* ================================================================== claims
\* The payload _load_link_config hands to the resolved config type.
Payload(data) == IF HasKey(data, "_class_data") THEN data.v["_class_data"] ELSE data

\* The cases in which link resolution cannot succeed: data is no mapping,
\* has no 'type', has an empty 'type', names no registry entry, or names an
\* implementation that has no config attached.
LinkFailure(o, c, data) ==
  \/ data.k # "map"
  \/ ~HasKey(data, "type")
  \/ ~Truthy(data.v["type"])
  \/ get_cls(getattr(o, c, "_class_type"), data.v["type"]) = NoClass
  \/ impl_config(get_cls(getattr(o, c, "_class_type"), data.v["type"])) = NoClass

\* C1: after backup_original_value() has captured a snapshot S on a class,
\* any from_json calls followed by renew() leave to_json() equal to S.
C1_RenewRestoresSnapshot ==
  (last.op = "renew" /\ original[last.node] # Absent)
    => to_json(own, last.node) = original[last.node]

\* C5: once a class has captured a snapshot, no later call changes it
\* (so every later backup_original_value() returns the first structure),
\* also when the captured structure is empty.
C5_CaptureOnce ==
  [][\A c \in Classes : original[c] # Absent => original'[c] = original[c]]_vars

\* C6: when backup_configs() returns, every declared subclass, also a
\* subclass of a backed-up subclass, holds its own snapshot, equal to its
\* to_json() at the time of the call (no snapshot existed before the call).
C6_BackupConfigsEachClass ==
  (last.op = "backup_configs" /\ last.fresh)
    => \A c \in Classes : original[c] = to_json(own, c)

\* A link node is settled when its discriminator is empty or resolves to
\* nothing, or its nested-config field already holds the config type the
\* discriminator resolves to.
LinkSettled(o, c) ==
  LET config_cls == _get_specific_class_config(getattr(o, c, "_class_type"),
                                               getattr(o, c, "type"))
  IN \/ ~Truthy(getattr(o, c, "type"))
     \/ config_cls = NoClass
     \/ getattr(o, c, "_class_data") = Cls(config_cls)

\* PipeStepConfig's pipe_step is a mapping and its promoted fields agree with
\* it.
PipeStepAgrees(o, c) ==
  LET ps == getattr(o, c, "pipe_step") IN
  c = "PipeStepConfig" =>
    /\ ps.k = "map"
    /\ \A f \in {"type", "models_folder"} : HasKey(ps, f) => ps.v[f] = getattr(o, c, f)

\* Class c and every config class nested below it are settled.
RECURSIVE Settled(_, _)
Settled(o, c) ==
  /\ _is_link_config(o, c) => LinkSettled(o, c)
  /\ PipeStepAgrees(o, c)
  /\ \A a \in Attr :
       getattr(o, c, a).k \in {"cls", "inst"} => Settled(o, getattr(o, c, a).v)

\* C2 (as claimed): with s = to_json() taken in any reachable state,
\* from_json(s) followed by to_json() yields a structure equal to s.
C2_RoundTrip ==
  last.op = "roundtrip" => (last.exc = "none" /\ to_json(own, last.node) = last.data)

\* C2 (amended): the round trip yields s again whenever, in the state s is
\* taken in, every link node involved is settled and PipeStepConfig's
\* pipe_step is a mapping that agrees with its type and models_folder.
C2_RoundTripSettled ==
  [][(last'.op = "roundtrip" /\ Settled(own, last'.node))
       => (last'.exc = "none" /\ to_json(own', last'.node) = last'.data
             /\ last'.data = to_json(own, last'.node))]_vars

\* A round trip of PlainConfig after a field was added and its nested type
\* updated.
C2_Witness ==
  /\ last.op = "roundtrip"
  /\ last.node = "PlainConfig"
  /\ getattr(own, "PlainConfig", "sub") = Cls("SubConfig")
  /\ getattr(own, "SubConfig", "x") = IntV(1)
  /\ getattr(own, "PlainConfig", "new_field") = IntV(1)
  /\ to_json(own, "PlainConfig") = last.data

C4_LinkSuccess ==
  [][(/\ last'.op = "from_json"
      /\ _is_link_config(own, last'.node)
      /\ ~LinkFailure(own, last'.node, last'.data))
       => LET n == last'.node
              data == last'.data
              C == impl_config(get_cls(getattr(own, n, "_class_type"), data.v["type"]))
          IN /\ last'.exc = "none"
             /\ getattr(own', n, "type") = data.v["type"]
             /\ getattr(own', n, "_class_data") = Cls(C)
             /\ \A a \in Attr :
                  own'[C][a] = IF HasKey(Payload(data), a)
                               THEN Payload(data).v[a] ELSE own[C][a]]_vars

\* OptimLink resolved to Adam on the restore path, AdamConfig updated from
\* the '_class_data' payload only.
C4_Witness ==
  /\ last.op = "from_json"
  /\ last.node = "OptimLink"
  /\ last.data = Map2("type", StrV("Adam"), "_class_data", Map1("lr", IntV(1)))
  /\ getattr(own, "OptimLink", "type") = StrV("Adam")
  /\ getattr(own, "OptimLink", "_class_data") = Cls("AdamConfig")
  /\ own["AdamConfig"]["lr"] = IntV(1)
  /\ own["AdamConfig"]["type"] = Absent

\* C9: a from_json call on a link node changes at most the node's 'type'
\* and '_class_data'; '_class_type' and every other field of the link node
\* stay as they were and no field is added to it, whatever keys data has.
C9_LinkFrame ==
  [][(last'.op = "from_json" /\ _is_link_config(own, last'.node))
       => \A a \in Attr \ {"type", "_class_data"} :
            own'[last'.node][a] = own[last'.node][a]]_vars

\* DataLink called with an extra key 'lr', which lands in AdamConfig.
C9_Witness ==
  /\ last.op = "from_json"
  /\ last.node = "DataLink"
  /\ last.data = Map2("type", StrV("Adam"), "lr", IntV(1))
  /\ own["DataLink"]["lr"] = Absent
  /\ own["DataLink"]["_class_type"] = StrV("optimizer")
  /\ own["AdamConfig"]["lr"] = IntV(1)

\* A link node has resolved once its nested-config field holds a type.
Resolved(o, c) == _is_link_config(o, c) /\ getattr(o, c, "_class_data").k = "cls"

\* C10: in every reachable state, two link nodes that have resolved to the
\* same (category, name) hold the same config type, and the nested-config
\* part of their to_json() is equal.
C10_SharedResolvedConfig ==
  \A c1 \in Classes : \A c2 \in Classes :
    (/\ Resolved(own, c1) /\ Resolved(own, c2)
     /\ getattr(own, c1, "_class_type") = getattr(own, c2, "_class_type")
     /\ getattr(own, c1, "type") = getattr(own, c2, "type"))
      => /\ getattr(own, c1, "_class_data") = getattr(own, c2, "_class_data")
         /\ to_json(own, c1).v["_class_data"] = to_json(own, c2).v["_class_data"]

\* Both link nodes resolved to Adam, the second call having changed
\* AdamConfig.
C10_Witness ==
  /\ Resolved(own, "OptimLink") /\ Resolved(own, "DataLink")
  /\ getattr(own, "OptimLink", "type") = StrV("Adam")
  /\ getattr(own, "DataLink", "type") = StrV("Adam")
  /\ last.op = "from_json" /\ last.node = "DataLink"
  /\ to_json(own, "OptimLink").v["_class_data"] = Map2("lr", IntV(1), "type", StrV("Adam"))

\* The calls that run from_json with last.data: from_json itself, the round
\* trip, and renew (with the snapshot).
FromJsonRan(l) == l.op \in {"from_json", "roundtrip", "renew"}

\* The per-key rule for key k of a call on class n that took the class
\* dictionaries from o to o2.
PerKeyRule(o, o2, n, data, k) ==
  IF ~HasKey(data, k) THEN getattr(o2, n, k) = getattr(o, n, k)
  ELSE IF ~hasattr(o, n, k) THEN o2[n][k] = data.v[k]
  ELSE IF getattr(o, n, k).k = "cls" /\ data.v[k].k = "map"
  THEN /\ getattr(o2, n, k) = getattr(o, n, k)
       /\ \A j \in Keys(data.v[k]) : getattr(o2, getattr(o, n, k).v, j) = data.v[k].v[j]
  ELSE getattr(o2, n, k) = data.v[k]

\* Key k of PipeStepConfig is promoted out of data['pipe_step'].
Promoted(n, data, k) ==
  /\ n = "PipeStepConfig"
  /\ k \in {"type", "models_folder"}
  /\ HasKey(data, "pipe_step")
  /\ HasKey(data.v["pipe_step"], k)

\* C7 (as claimed): from_json on a non-link node with non-empty data follows
\* the per-key rule for every key of data (added if new; nested type kept
\* and updated if the field is a config type and the value a mapping;
\* replaced otherwise) and leaves every other field unchanged.
C7_PerKeyRule ==
  [][(/\ FromJsonRan(last') /\ last'.exc = "none" /\ Truthy(last'.data)
      /\ ~_is_link_config(own, last'.node))
       => \A k \in Attr : PerKeyRule(own, own', last'.node, last'.data, k)]_vars

\* C7 (amended): the per-key rule holds for every field except the two that
\* PipeStepConfig promotes: when data['pipe_step'] carries 'type' or
\* 'models_folder', that field of PipeStepConfig ends as the promoted value.
C7_PerKeyRuleButPipeStep ==
  [][(/\ FromJsonRan(last') /\ last'.exc = "none" /\ Truthy(last'.data)
      /\ ~_is_link_config(own, last'.node))
       => \A k \in Attr :
            IF Promoted(last'.node, last'.data, k)
            THEN getattr(own', last'.node, k) = last'.data.v["pipe_step"].v[k]
            ELSE PerKeyRule(own, own', last'.node, last'.data, k)]_vars

\* A call on PlainConfig that replaces 'a', updates the nested SubConfig
\* and leaves the earlier added 'new_field' alone.
C7_Witness ==
  /\ last.op = "from_json" /\ last.node = "PlainConfig" /\ last.exc = "none"
  /\ last.data = Map2("a", IntV(MaxInt), "sub", Map1("x", StrV("bad")))
  /\ getattr(own, "PlainConfig", "a") = IntV(MaxInt)
  /\ getattr(own, "PlainConfig", "sub") = Cls("SubConfig")
  /\ getattr(own, "SubConfig", "x") = StrV("bad")
  /\ getattr(own, "PlainConfig", "new_field") = IntV(1)

\* C8 (as claimed): a from_json call that ends in a ValidationError, from
\* the node's own rules or a nested node's, has changed no class-level
\* field; with skip_check = TRUE no ValidationError is raised.
C8_ValidationBeforeAny ==
  [][last'.op = "from_json"
       => /\ last'.exc = "ValidationError" => own' = own
          /\ last'.skip => last'.exc # "ValidationError"]_vars

\* C8 (amended): a from_json call that ends in a ValidationError of the
\* node's own rules has changed no class-level field; with skip_check = TRUE
\* no ValidationError is raised.
C8_OwnValidationBeforeAny ==
  [][last'.op = "from_json"
       => /\ (last'.exc = "ValidationError" /\ ~check_config(last'.node, last'.data))
               => own' = own
          /\ last'.skip => last'.exc # "ValidationError"]_vars

\* PlainConfig's own rules reject the data after an earlier call changed
\* 'a'.
C8_Witness ==
  /\ last.op = "from_json" /\ last.node = "PlainConfig" /\ ~last.skip
  /\ last.data = Map1("a", StrV("bad"))
  /\ last.exc = "ValidationError"
  /\ getattr(own, "PlainConfig", "a") = IntV(MaxInt)

====
